---- MODULE Spec2Model ----
(***************************************************************************)
(* State Mesh: multi-chain state ingestion.                                *)
(*                                                                         *)
(* Two subsystems of the repository are modelled, each with its own        *)
(* specification over the shared canonical store:                          *)
(*   Spec          the polling ingester (internal/ingester/ingester.go):   *)
(*                 Ingester.Start, one ChainWorker goroutine per enabled   *)
(*                 chain entry, ingestChainState and its module steps,     *)
(*                 the storage transactions and the connection pool;       *)
(*   ListenerSpec  the push listener (internal/listener/state_listener.go):*)
(*                 OnStateChange, the inbound channel, the routing         *)
(*                 goroutine and the per-chain ListenerWorker goroutines.  *)
(***************************************************************************)
EXTENDS Integers, Sequences, FiniteSets, TLC

(***************************************************************************)
(* Bounds of the model.                                                    *)
(***************************************************************************)
\* Block heights the source may report are 0..MaxHeight.
MaxHeight == 1
\* A GetValidators response holds at most MaxVals validators.
MaxVals == 1

\* Chain names a configuration may use.
ChainNames == {"cosmoshub", "osmosis"}
\* Validator operator addresses that exist on a chain.
Operators == {"val1"}
\* Token amounts (decimal strings) a validator may carry.
TokenAmounts == {"1000"}
\* Module lists a chain entry may configure ("gov" is what setDefaults
\* configures; ingestChainState does not know it).
ModuleLists == {<<"bank", "staking", "gov", "governance">>}
\* database.postgres.max_conns values; 0 (or less) means no limit in
\* database/sql's SetMaxOpenConns.
PoolSizes == {0, 1, 2}
Heights == 0..MaxHeight

(***************************************************************************)
(* Configuration (internal/config/config.go).                              *)
(***************************************************************************)
ChainConfigs ==
    [Name : ChainNames \cup {""}, GRPCEndpoint : {"", "localhost:9090"},
     Modules : ModuleLists \cup {<<>>}, Enabled : BOOLEAN]

\* Config.Validate, the part that reads c.Chains: the list is not empty and
\* every entry has a name, an endpoint and a module; names are not compared
\* with one another.  The database, API and streaming checks that follow
\* read other fields and constrain neither the chain entries nor max_conns.
Validate(chains) ==
    /\ Len(chains) # 0
    /\ \A i \in 1..Len(chains) :
          /\ chains[i].Name # ""
          /\ chains[i].GRPCEndpoint # ""
          /\ Len(chains[i].Modules) # 0

ChainLists ==
    {<<a>> : a \in ChainConfigs} \cup {<<a, b>> : a \in ChainConfigs, b \in ChainConfigs}

ValidConfigs ==
    {[Chains |-> ch, MaxConns |-> p] : ch \in {c \in ChainLists : Validate(c)}, p \in PoolSizes}

(***************************************************************************)
(* Canonical store (migrations/postgres/001_initial_schema.sql and         *)
(* internal/storage/postgres.go).                                          *)
(***************************************************************************)
NoRow == [Tokens |-> "", Height |-> -1]

ValidatorRows == [Tokens : TokenAmounts, Height : Heights] \cup {NoRow}

\* validators table, UNIQUE(chain_name, operator_address).
EmptyValidators == [k \in ChainNames \X Operators |-> NoRow]

\* The types.Validator built by ingestStakingModule.  Of the payload columns
\* only tokens is kept; all columns are overwritten together.
ValidatorRecords == [ChainName : ChainNames, OperatorAddress : Operators,
                     Tokens : TokenAmounts, Height : Heights]

\* PostgresTx.UpsertValidator: INSERT ... ON CONFLICT (chain_name,
\* operator_address) DO UPDATE SET every column = EXCLUDED.column, with no
\* condition on height.
UpsertValidator(table, v) ==
    [table EXCEPT ![<<v.ChainName, v.OperatorAddress>>] =
        [Tokens |-> v.Tokens, Height |-> v.Height]]

\* The upsert loop of ingestStakingModule over a fetched list, in list order.
RECURSIVE UpsertValidators(_, _)
UpsertValidators(table, vs) ==
    IF vs = <<>> THEN table
    ELSE UpsertValidators(UpsertValidator(table, Head(vs)), Tail(vs))

\* The rows of one chain.
ChainRows(table, c) == [op \in Operators |-> table[<<c, op>>]]

(***************************************************************************)
(* Source adapter (pkg/cosmos/client.go).                                  *)
(***************************************************************************)
\* A validator as the chain returns it.
SourceValidators ==
    [OperatorAddress : Operators, Tokens : TokenAmounts, UnbondingHeight : Heights]

RECURSIVE SeqsUpTo(_, _)
SeqsUpTo(S, n) ==
    IF n = 0 THEN {<<>>}
    ELSE LET shorter == SeqsUpTo(S, n - 1)
         IN shorter \cup {Append(s, x) : s \in {t \in shorter : Len(t) = n - 1}, x \in S}

\* What Client.GetValidators can return when it does not fail.
ValidatorResponses == SeqsUpTo(SourceValidators, MaxVals)

\* Client.GetLatestHeight on a GetValidators response: an error when the list
\* is empty, else the unbonding height of the first validator.
GetLatestHeight(resp) ==
    IF Len(resp) = 0 THEN [err |-> TRUE, height |-> 0]
    ELSE [err |-> FALSE, height |-> resp[1].UnbondingHeight]

\* Manager.GetChains / Manager.GetChain: fixed demo data.
DemoLatestHeight == 12345678

GetChain(name) ==
    IF name = "cosmoshub" THEN [err |-> FALSE, LatestHeight |-> DemoLatestHeight]
    ELSE [err |-> TRUE, LatestHeight |-> 0]

\* queryResolver.Chains / queryResolver.Chain: hardcoded chain info.
ResolverChain(name) ==
    IF name \in {"cosmoshub", "osmosis"} THEN [err |-> FALSE, LatestHeight |-> 0]
    ELSE [err |-> TRUE, LatestHeight |-> 0]

(***************************************************************************)
(* State.                                                                  *)
(***************************************************************************)
VARIABLES
    cfg,           \* the loaded configuration: [Chains, MaxConns]
    started,       \* Ingester.Start has run
    cancelled,     \* the context passed to Ingester.Start (and to
                   \* StateListener.Start, which does not keep it) is cancelled
    clients,       \* Ingester.clients: chain name -> "nil" | "open" | "closed"
    workers,       \* one ChainWorker goroutine per chain entry (see IdleWorker)
    validators,    \* validators table (committed rows)
    latest_height, \* chains.latest_height column, per chain name
    lastCommitted, \* history: height of the chain's last successful cycle, -1 if none
    listener,      \* the StateListener and its goroutines (see NewStateListener)
    stateChanges,  \* StateListener.stateChanges, the inbound channel's buffer
    lworkers,      \* one ListenerWorker per chain entry (see NoListenerWorker)
    balances,      \* balances table (committed rows)
    crossChain,    \* the last cross-chain account request and its response
    batch,         \* history: the last batch a transaction was handed directly
    delegations,   \* the delegations table of the canonical store
    reader,        \* an account-state read: its position and what it has read
    commits        \* history: the store states (balances, delegations) committed

ivars == <<started, cancelled, clients, workers, validators, latest_height, lastCommitted>>

lvars == <<listener, stateChanges, lworkers, balances>>

rvars == <<delegations, reader, commits>>

avars == <<crossChain, batch, rvars>>

vars == <<cfg, ivars, lvars, avars>>

\* A ChainWorker: pc is the place of its goroutine
\*   "none"     no worker was created for the entry
\*   "idle"     in the select of ChainWorker.Start
\*   "height"   ingestChainState, in GetLatestHeight
\*   "begin"    ingestChainState, in storage.BeginTx (outer transaction)
\*   "module"   in the module loop, at chainCfg.Modules[mi]
\*   "staking"  ingestStakingModule, validators fetched, in BeginTx (inner)
\*   "commit"   ingestChainState, in tx.Commit
\*   "stopped"  ChainWorker.Start has returned
\* height is the local of ingestChainState, vals the fetched validators of
\* ingestStakingModule, err the last return value of ingestChainState, and
\* start (history) the chain's rows when the cycle began.
NoWorker ==
    [pc |-> "none", height |-> 0, mi |-> 0, vals |-> <<>>, err |-> "nil",
     start |-> [op \in Operators |-> NoRow]]

IdleWorker == [NoWorker EXCEPT !.pc = "idle"]

Workers == DOMAIN cfg.Chains

ChainOf(w) == cfg.Chains[w].Name

InCycle(wk) == wk.pc \in {"height", "begin", "module", "staking", "commit"}

\* The worker holds the outer transaction of ingestChainState, and with it
\* one connection of the pool.
HoldsOuterTx(wk) == wk.pc \in {"module", "staking", "commit"}

ConnsInUse == Cardinality({w \in Workers : HoldsOuterTx(workers[w])})

\* sql.DB.BeginTx returns a connection when the pool has one free; it waits
\* otherwise.  SetMaxOpenConns(n) with n <= 0 sets no limit.
ConnAvailable == cfg.MaxConns <= 0 \/ ConnsInUse < cfg.MaxConns

(***************************************************************************)
(* State listener (internal/listener/state_listener.go): data.             *)
(***************************************************************************)
\* Capacity of StateListener.stateChanges.  The source allocates 10000; the
\* model scales it down.
StateChangesCap == 2
\* Capacity of ListenerWorker.changes.  The source allocates 1000; the model
\* scales it down.
WorkerChangesCap == 1
\* OnStateChange is called at most MaxEvents times.
MaxEvents == 4

\* Raw keys are byte strings, here sequences of one-character strings.
BalancesPrefix == <<"b", "a", "l", "a", "n", "c", "e", "s", "/">>

SupplyPrefix == <<"s", "u", "p", "p", "l", "y", "/">>

Addresses == {"a"}

Denoms == {"u", "v"}

RawKeys == {BalancesPrefix \o <<"a", "/", "u">>, SupplyPrefix \o <<"u">>}

\* A bank key of the documented form balances/{address}/{denom}.
IsBalanceKey(key) ==
    \E a \in Addresses, d \in Denoms : key = BalancesPrefix \o <<a, "/", d>>

StoreKeys == {"bank"}

\* The StateChange built by the n-th call of OnStateChange (Seq is history:
\* the number of the call; the Timestamp is left out).
StateChanges(n) ==
    [ChainName : ChainNames, StoreKey : StoreKeys, Key : RawKeys,
     Value : TokenAmounts, Delete : {FALSE}, Height : {0}, Seq : {n}]

\* balances table, UNIQUE(chain_name, address, denom).
NoBalance == [Amount |-> "", Height |-> -1]

EmptyBalances == [k \in ChainNames \X Addresses \X Denoms |-> NoBalance]

\* UpsertBalance as it would be with ON CONFLICT ... DO NOTHING: the row that
\* is already stored is kept.
UpsertBalanceDoNothing(table, b) ==
    IF table[<<b.ChainName, b.Address, b.Denom>>] # NoBalance THEN table
    ELSE [table EXCEPT ![<<b.ChainName, b.Address, b.Denom>>] =
             [Amount |-> b.Amount, Height |-> b.Height]]

\* PostgresTx.UpsertBalance: INSERT ... ON CONFLICT (chain_name, address,
\* denom) DO UPDATE SET amount, height, updated_at = EXCLUDED's, with no
\* condition on height.
UpsertBalance(table, b) ==
    [table EXCEPT ![<<b.ChainName, b.Address, b.Denom>>] =
        [Amount |-> b.Amount, Height |-> b.Height]]

\* processBalanceChange as it would be if parts held the address and the
\* denom of the key: the balance is upserted on the store directly, with no
\* transaction around it.
ProcessBalanceChangeParsed(table, change, keyRemainder) ==
    LET parts == <<keyRemainder[1], keyRemainder[3]>>
    IN [err |-> "nil",
        balances |-> UpsertBalance(table,
           [ChainName |-> change.ChainName, Address |-> parts[1],
            Denom |-> parts[2],
            Amount |-> IF change.Delete THEN "0" ELSE change.Value,
            Height |-> change.Height])]

\* ListenerWorker.processBalanceChange: parts is the empty slice (the key is
\* not parsed yet), so the length check returns the error.
ProcessBalanceChange(table, change, keyRemainder) ==
    LET parts == <<>>
    IN IF Len(parts) < 2 THEN [err |-> "err", balances |-> table]
       ELSE [err |-> "nil",
             balances |-> UpsertBalance(table,
                [ChainName |-> change.ChainName, Address |-> parts[1],
                 Denom |-> parts[2],
                 Amount |-> IF change.Delete THEN "0" ELSE change.Value,
                 Height |-> change.Height])]

\* processBankStateChange as it would be without the length test before the
\* slice expression: keyStr[:9] panics on a key shorter than nine bytes.
ProcessBankStateChangeUnguarded(table, change) ==
    LET key == change.Key
    IN IF Len(key) < 9 THEN [err |-> "panic", balances |-> table]
       ELSE IF SubSeq(key, 1, 9) = BalancesPrefix
       THEN ProcessBalanceChange(table, change, SubSeq(key, 10, Len(key)))
       ELSE [err |-> "nil", balances |-> table]

\* ListenerWorker.processBankStateChange.
ProcessBankStateChange(table, change) ==
    LET key == change.Key
    IN IF Len(key) > 9 /\ SubSeq(key, 1, 9) = BalancesPrefix
       THEN ProcessBalanceChange(table, change, SubSeq(key, 10, Len(key)))
       ELSE [err |-> "nil", balances |-> table]

\* ListenerWorker.processStateChange: the switch on the store key.  Every
\* case but "bank" logs and returns nil.
ProcessStateChange(table, change) ==
    IF change.StoreKey = "bank" THEN ProcessBankStateChange(table, change)
    ELSE [err |-> "nil", balances |-> table]

\* NewStateListener: the inbound channel exists, no worker yet.  router is
\* the processStateChanges goroutine; workerOf is the sl.workers map (0: no
\* entry); calls counts the OnStateChange calls and last is the branch the
\* last call took (history).
NewStateListener ==
    [started |-> FALSE, cancelled |-> FALSE, closed |-> FALSE, panicked |-> FALSE,
     router |-> "none", workerOf |-> [c \in ChainNames |-> 0],
     calls |-> 0, last |-> "none"]

\* A ListenerWorker and its goroutine: pc is "none" (not created), "running"
\* (in the select of start) or "stopped"; err is the last return value of
\* processStateChange; done (history) lists the call numbers of the changes
\* the worker has handed to processStateChange, in the order it did.
NoListenerWorker == [pc |-> "none", changes |-> <<>>, err |-> "nil", done |-> <<>>]

\* OnStateChange has no result parameter: whichever branch of its select
\* runs, the caller is handed nothing.
OnStateChangeResult(branch) == "none"

ListenerInit ==
    /\ listener = NewStateListener
    /\ stateChanges = <<>>
    /\ lworkers = [w \in DOMAIN cfg.Chains |-> NoListenerWorker]
    /\ balances = EmptyBalances

IngesterInit ==
    /\ started = FALSE
    /\ cancelled = FALSE
    /\ clients = [c \in ChainNames |-> "nil"]
    /\ workers = [w \in DOMAIN cfg.Chains |-> NoWorker]
    /\ validators = EmptyValidators
    /\ latest_height = [c \in ChainNames |-> 0]
    /\ lastCommitted = [c \in ChainNames |-> -1]

\* No cross-chain request has been served.
NoRequest == [by |-> "none"]

\* No batch has been handed to a transaction.
NoBatch == [kind |-> "none", records |-> <<>>, err |-> "none"]

\* delegations table, UNIQUE(chain_name, delegator_address, validator_address).
NoDelegation == [Shares |-> "", Height |-> -1]

EmptyDelegations == [k \in ChainNames \X Addresses \X Operators |-> NoDelegation]

\* No account-state read is under way.
NoReader == [pc |-> "idle", Balances |-> <<>>, Delegations |-> <<>>]

ApiInit ==
    /\ crossChain = NoRequest
    /\ batch = NoBatch
    /\ delegations = EmptyDelegations
    /\ reader = NoReader
    /\ commits = <<[balances |-> balances, delegations |-> delegations]>>

Init ==
    /\ cfg \in ValidConfigs
    /\ IngesterInit
    /\ ListenerInit
    /\ ApiInit

(***************************************************************************)
(* Ingester.Start.                                                         *)
(***************************************************************************)
\* The first loop: a client is stored for every enabled entry whose NewClient
\* and Ping succeed (pinged is the set of entries for which they do).
ClientsAfterPing(pinged) ==
    [c \in ChainNames |->
        IF \E i \in Workers : cfg.Chains[i].Enabled /\ i \in pinged /\ ChainOf(i) = c
        THEN "open" ELSE "nil"]

\* The second loop as it would be if Start gave up as soon as one enabled
\* chain had no client: no worker is created unless every check succeeded.
WorkersAfterStartAllOrNone(cl) ==
    [i \in Workers |->
        IF \A j \in Workers : cfg.Chains[j].Enabled => cl[ChainOf(j)] # "nil"
        THEN (IF cfg.Chains[i].Enabled THEN IdleWorker ELSE NoWorker)
        ELSE NoWorker]

\* The second loop: a worker goroutine for every enabled entry whose name has
\* a client.
WorkersAfterStart(cl) ==
    [i \in Workers |->
        IF cfg.Chains[i].Enabled /\ cl[ChainOf(i)] # "nil" THEN IdleWorker ELSE NoWorker]

IngesterStart ==
    /\ ~started
    /\ \E pinged \in SUBSET Workers :
          /\ clients' = ClientsAfterPing(pinged)
          /\ workers' = WorkersAfterStart(ClientsAfterPing(pinged))
    /\ started' = TRUE
    /\ UNCHANGED <<cfg, avars, lvars, cancelled, validators, latest_height, lastCommitted>>

\* runIngest: cancel() on a shutdown signal.  Ingester.Start derives i.ctx
\* from this context; StateListener.Start takes it as a parameter and runs
\* its goroutines on sl.ctx, which NewStateListener derived from
\* context.Background() and only Stop cancels (listener.cancelled).
Cancel ==
    /\ started
    /\ ~cancelled
    /\ cancelled' = TRUE
    /\ UNCHANGED <<cfg, avars, lvars, started, clients, workers, validators, latest_height, lastCommitted>>

(***************************************************************************)
(* ChainWorker.Start.                                                      *)
(***************************************************************************)
\* case <-ctx.Done(): the worker stops.
WorkerStop(w) ==
    /\ workers[w].pc = "idle"
    /\ cancelled
    /\ workers' = [workers EXCEPT ![w].pc = "stopped"]
    /\ UNCHANGED <<cfg, avars, lvars, started, cancelled, clients, validators, latest_height, lastCommitted>>

\* The ticker case as it would be if the loop went on after ctx.Done().
TickAfterStop(w) ==
    /\ workers[w].pc \in {"idle", "stopped"}
    /\ workers' = [workers EXCEPT ![w] =
          [IdleWorker EXCEPT !.pc = "height",
                             !.start = ChainRows(validators, ChainOf(w))]]
    /\ UNCHANGED <<cfg, avars, lvars, started, cancelled, clients, validators, latest_height, lastCommitted>>

\* case <-w.ticker.C: ingestChainState is called.  When the context is done
\* and the ticker has fired, select takes either case.
Tick(w) ==
    /\ workers[w].pc = "idle"
    /\ workers' = [workers EXCEPT ![w] =
          [IdleWorker EXCEPT !.pc = "height",
                             !.start = ChainRows(validators, ChainOf(w))]]
    /\ UNCHANGED <<cfg, avars, lvars, started, cancelled, clients, validators, latest_height, lastCommitted>>

\* The error case as it would be if ChainWorker.Start returned the error of
\* ingestChainState instead of logging it.
CycleFailedStops == [IdleWorker EXCEPT !.err = "err", !.pc = "stopped"]

\* ingestChainState returns err; the deferred Rollback releases the outer
\* transaction; ChainWorker.Start logs the error and selects again.
CycleFailed == [IdleWorker EXCEPT !.err = "err"]

CycleDone == [IdleWorker EXCEPT !.err = "nil"]

(***************************************************************************)
(* ChainWorker.ingestChainState.                                           *)
(***************************************************************************)
\* height, err := w.client.GetLatestHeight(ctx)
LatestHeightStep(w) ==
    /\ workers[w].pc = "height"
    /\ \/ workers' = [workers EXCEPT ![w] = CycleFailed]
       \/ \E resp \in ValidatorResponses :
             LET r == GetLatestHeight(resp)
             IN workers' = [workers EXCEPT ![w] =
                   IF r.err THEN CycleFailed
                   ELSE [@ EXCEPT !.pc = "begin", !.height = r.height]]
    /\ UNCHANGED <<cfg, avars, lvars, started, cancelled, clients, validators, latest_height, lastCommitted>>

\* tx, err := w.storage.BeginTx(ctx); defer tx.Rollback().  While the pool
\* has no free connection the call waits; it returns an error on a
\* connection it was given, or when ctx is cancelled.
BeginTxStep(w) ==
    /\ workers[w].pc = "begin"
    /\ \/ /\ ConnAvailable \/ cancelled
          /\ workers' = [workers EXCEPT ![w] = CycleFailed]
       \/ /\ ConnAvailable
          /\ workers' = [workers EXCEPT ![w] = [@ EXCEPT !.pc = "module", !.mi = 1]]
    /\ UNCHANGED <<cfg, avars, lvars, started, cancelled, clients, validators, latest_height, lastCommitted>>

Module(w) == cfg.Chains[w].Modules[workers[w].mi]

\* The worker after a module step returned nil: the next module, or Commit.
AfterModule(w) ==
    IF workers[w].mi < Len(cfg.Chains[w].Modules)
    THEN [workers[w] EXCEPT !.pc = "module", !.mi = @ + 1, !.vals = <<>>]
    ELSE [workers[w] EXCEPT !.pc = "commit", !.vals = <<>>]

\* ingestBankModule (GetTotalSupply) and ingestGovernanceModule
\* (GetProposals): one source call, nothing is written.
QueryModuleStep(w) ==
    /\ workers[w].pc = "module"
    /\ Module(w) \in {"bank", "governance"}
    /\ \/ workers' = [workers EXCEPT ![w] = CycleFailed]
       \/ workers' = [workers EXCEPT ![w] = AfterModule(w)]
    /\ UNCHANGED <<cfg, avars, lvars, started, cancelled, clients, validators, latest_height, lastCommitted>>

\* The default case of the switch as it would be if an unknown module name
\* were an error of the cycle.
UnknownModuleFails(w) ==
    /\ workers[w].pc = "module"
    /\ Module(w) \notin {"bank", "governance", "staking"}
    /\ workers' = [workers EXCEPT ![w] = CycleFailed]
    /\ UNCHANGED <<cfg, avars, lvars, started, cancelled, clients, validators, latest_height, lastCommitted>>

\* ingestDistributionModule, ingestMintModule, ingestSlashingModule and the
\* default case of the switch: a log line.
LogModuleStep(w) ==
    /\ workers[w].pc = "module"
    /\ Module(w) \notin {"bank", "governance", "staking"}
    /\ workers' = [workers EXCEPT ![w] = AfterModule(w)]
    /\ UNCHANGED <<cfg, avars, lvars, started, cancelled, clients, validators, latest_height, lastCommitted>>

\* The types.Validator records ingestStakingModule builds from a response.
ToRecords(c, resp, h) ==
    [i \in 1..Len(resp) |->
        [ChainName |-> c, OperatorAddress |-> resp[i].OperatorAddress,
         Tokens |-> resp[i].Tokens, Height |-> h]]

\* ingestStakingModule: validators, err := w.client.GetValidators(ctx, "")
StakingFetchStep(w) ==
    /\ workers[w].pc = "module"
    /\ Module(w) = "staking"
    /\ \/ workers' = [workers EXCEPT ![w] = CycleFailed]
       \/ \E resp \in ValidatorResponses :
             workers' = [workers EXCEPT ![w] =
                [@ EXCEPT !.pc = "staking",
                          !.vals = ToRecords(ChainOf(w), resp, workers[w].height)]]
    /\ UNCHANGED <<cfg, avars, lvars, started, cancelled, clients, validators, latest_height, lastCommitted>>

\* ingestStakingModule from its own BeginTx to its own tx.Commit: a second
\* transaction, on a second connection, while the outer one is held.  It ends
\* with every row written and committed, or (BeginTx, an upsert or Commit
\* failing) with its own writes rolled back and the cycle failed.  Its
\* BeginTx waits while the pool has no free connection, as the outer one.
StakingCommit(table, vs) == UpsertValidators(table, vs)

StakingTxStep(w) ==
    /\ workers[w].pc = "staking"
    /\ \/ /\ ConnAvailable \/ cancelled
          /\ workers' = [workers EXCEPT ![w] = CycleFailed]
          /\ UNCHANGED validators
       \/ /\ ConnAvailable
          /\ validators' = StakingCommit(validators, workers[w].vals)
          /\ workers' = [workers EXCEPT ![w] = AfterModule(w)]
    /\ UNCHANGED <<cfg, avars, lvars, started, cancelled, clients, latest_height, lastCommitted>>

\* tx.Commit() of the outer transaction, which holds no write.
CommitStep(w) ==
    /\ workers[w].pc = "commit"
    /\ \/ /\ workers' = [workers EXCEPT ![w] = CycleFailed]
          /\ UNCHANGED lastCommitted
       \/ /\ workers' = [workers EXCEPT ![w] = CycleDone]
          /\ lastCommitted' = [lastCommitted EXCEPT ![ChainOf(w)] = workers[w].height]
    /\ UNCHANGED <<cfg, avars, lvars, started, cancelled, clients, validators, latest_height>>

Next ==
    \/ IngesterStart
    \/ \E w \in Workers : Tick(w)
    \/ \E w \in Workers : LatestHeightStep(w)
    \/ \E w \in Workers : BeginTxStep(w)
    \/ \E w \in Workers : QueryModuleStep(w)
    \/ \E w \in Workers : LogModuleStep(w)
    \/ \E w \in Workers : StakingFetchStep(w)
    \/ \E w \in Workers : StakingTxStep(w)
    \/ \E w \in Workers : CommitStep(w)

Spec == Init /\ [][Next]_vars

(***************************************************************************)
(* State listener: StateListener.Start, OnStateChange, the routing         *)
(* goroutine, the worker goroutines and Stop.                              *)
(***************************************************************************)
\* createWorker for every enabled entry; sl.workers[chain.Name] keeps the
\* last worker created for a name.
LastEnabled(c) ==
    LET S == {i \in Workers : cfg.Chains[i].Enabled /\ ChainOf(i) = c}
    IN IF S = {} THEN 0 ELSE CHOOSE i \in S : \A j \in S : j <= i

ListenerStart ==
    /\ ~listener.started
    /\ listener' = [listener EXCEPT !.started = TRUE, !.router = "running",
                                   !.workerOf = [c \in ChainNames |-> LastEnabled(c)]]
    /\ lworkers' = [i \in Workers |->
          IF cfg.Chains[i].Enabled THEN [NoListenerWorker EXCEPT !.pc = "running"]
          ELSE NoListenerWorker]
    /\ UNCHANGED <<cfg, avars, ivars, stateChanges, balances>>

\* The select of OnStateChange as a blocking send would be: the call waits
\* for room in the channel.
OnStateChangeBlocking(change) ==
    /\ ~listener.panicked
    /\ listener.calls < MaxEvents
    /\ change.Seq = listener.calls + 1
    /\ ~listener.closed
    /\ Len(stateChanges) < StateChangesCap
    /\ stateChanges' = Append(stateChanges, change)
    /\ listener' = [listener EXCEPT !.calls = @ + 1, !.last = "queued"]
    /\ UNCHANGED <<cfg, avars, ivars, lworkers, balances>>

\* OnStateChange: select { case sl.stateChanges <- change: default: log }.
\* A send on the closed channel panics.
OnStateChange(change) ==
    /\ ~listener.panicked
    /\ listener.calls < MaxEvents
    /\ change.Seq = listener.calls + 1
    /\ IF listener.closed
       THEN /\ listener' = [listener EXCEPT !.calls = @ + 1, !.panicked = TRUE]
            /\ UNCHANGED stateChanges
       ELSE IF Len(stateChanges) < StateChangesCap
       THEN /\ stateChanges' = Append(stateChanges, change)
            /\ listener' = [listener EXCEPT !.calls = @ + 1, !.last = "queued"]
       ELSE /\ UNCHANGED stateChanges
            /\ listener' = [listener EXCEPT !.calls = @ + 1, !.last = "dropped"]
    /\ UNCHANGED <<cfg, avars, ivars, lworkers, balances>>

\* The routing step as it would be if the newest staged change were taken
\* first.
RouteNewestFirst ==
    /\ ~listener.panicked
    /\ listener.router = "running"
    /\ stateChanges # <<>>
    /\ LET change == stateChanges[Len(stateChanges)]
           i == listener.workerOf[change.ChainName]
       IN /\ stateChanges' = SubSeq(stateChanges, 1, Len(stateChanges) - 1)
          /\ lworkers' =
               IF i # 0 /\ Len(lworkers[i].changes) < WorkerChangesCap
               THEN [lworkers EXCEPT ![i].changes = Append(@, change)]
               ELSE lworkers
    /\ UNCHANGED <<cfg, avars, ivars, listener, balances>>

\* processStateChanges, case change := <-sl.stateChanges: the change goes to
\* the worker of its chain when there is one and its channel has room, and is
\* dropped with a warning otherwise.
Route ==
    /\ ~listener.panicked
    /\ listener.router = "running"
    /\ stateChanges # <<>>
    /\ LET change == Head(stateChanges)
           i == listener.workerOf[change.ChainName]
       IN /\ stateChanges' = Tail(stateChanges)
          /\ lworkers' =
               IF i # 0 /\ Len(lworkers[i].changes) < WorkerChangesCap
               THEN [lworkers EXCEPT ![i].changes = Append(@, change)]
               ELSE lworkers
    /\ UNCHANGED <<cfg, avars, ivars, listener, balances>>

\* processStateChanges, case <-sl.ctx.Done().
RouterStop ==
    /\ ~listener.panicked
    /\ listener.router = "running"
    /\ listener.cancelled
    /\ listener' = [listener EXCEPT !.router = "stopped"]
    /\ UNCHANGED <<cfg, avars, ivars, stateChanges, lworkers, balances>>

\* ListenerWorker.start, case change := <-lw.changes: processStateChange,
\* whose error is logged.
ListenerWorkerProcess(i) ==
    /\ ~listener.panicked
    /\ lworkers[i].pc = "running"
    /\ lworkers[i].changes # <<>>
    /\ LET r == ProcessStateChange(balances, Head(lworkers[i].changes))
       IN /\ balances' = r.balances
          /\ lworkers' = [lworkers EXCEPT ![i].changes = Tail(@), ![i].err = r.err,
                                          ![i].done = Append(@, Head(lworkers[i].changes).Seq)]
    /\ UNCHANGED <<cfg, avars, ivars, listener, stateChanges>>

\* ListenerWorker.start, case <-ctx.Done().
ListenerWorkerStop(i) ==
    /\ ~listener.panicked
    /\ lworkers[i].pc = "running"
    /\ listener.cancelled
    /\ lworkers' = [lworkers EXCEPT ![i].pc = "stopped"]
    /\ UNCHANGED <<cfg, avars, ivars, listener, stateChanges, balances>>

\* StateListener.Stop: sl.cancel().
StopCancel ==
    /\ ~listener.panicked
    /\ listener.started
    /\ ~listener.cancelled
    /\ listener' = [listener EXCEPT !.cancelled = TRUE]
    /\ UNCHANGED <<cfg, avars, ivars, stateChanges, lworkers, balances>>

\* StateListener.Stop: sl.wg.Wait() has returned, close(sl.stateChanges).
StopClose ==
    /\ ~listener.panicked
    /\ listener.cancelled
    /\ ~listener.closed
    /\ listener.router = "stopped"
    /\ \A i \in Workers : lworkers[i].pc # "running"
    /\ listener' = [listener EXCEPT !.closed = TRUE]
    /\ UNCHANGED <<cfg, avars, ivars, stateChanges, lworkers, balances>>

\* A further call of StateListener.Stop after one has returned: sl.cancel()
\* and sl.wg.Wait() return at once, and close(sl.stateChanges) on the closed
\* channel panics.
StopCloseAgain ==
    /\ ~listener.panicked
    /\ listener.closed
    /\ listener' = [listener EXCEPT !.panicked = TRUE]
    /\ UNCHANGED <<cfg, avars, ivars, stateChanges, lworkers, balances>>

ListenerConfigs == {c \in ValidConfigs : c.MaxConns = 0}

LInit ==
    /\ cfg \in ListenerConfigs
    /\ IngesterInit
    /\ ListenerInit
    /\ ApiInit

LNext ==
    \/ ListenerStart
    \/ \E change \in StateChanges(listener.calls + 1) : OnStateChange(change)
    \/ Route
    \/ RouterStop
    \/ \E i \in Workers : ListenerWorkerProcess(i)
    \/ \E i \in Workers : ListenerWorkerStop(i)
    \/ StopCancel
    \/ StopClose
    \/ StopCloseAgain

ListenerSpec == LInit /\ [][LNext]_vars

(***************************************************************************)
(* Cross-chain account aggregation: queryResolver.Account and              *)
(* queryResolver.CrossChainAccount (unnamed/part_002), and the REST        *)
(* handler Server.getCrossChainAccount (unnamed/part_001).                 *)
(***************************************************************************)
\* The chains the resolver iterates over, in its order.
CrossChainChains == <<"cosmoshub", "osmosis">>

\* Amounts (decimal strings) a stored balance may carry.
BalanceAmounts == {"1000000", "2500000"}

\* The balances tables the API may be asked to read.
BalanceTables ==
    [ChainNames \X Addresses \X Denoms ->
        {NoBalance} \cup [Amount : BalanceAmounts, Height : {0}]]

\* The delegations of an address on a chain, as GetDelegations returns them.
DelegationLists == {<<>>, <<[ValidatorAddress |-> "val1", Shares |-> "500"]>>}

\* ORDER BY denom.
DenomOrder == <<"u", "v">>

\* PostgresStore.GetBalances: the rows of (chain, address), ordered by denom.
GetBalances(table, chain, address) ==
    LET present == SelectSeq(DenomOrder,
                             LAMBDA d : table[<<chain, address, d>>] # NoBalance)
    IN [n \in 1..Len(present) |->
           [ChainName |-> chain, Address |-> address, Denom |-> present[n],
            Amount |-> table[<<chain, address, present[n]>>].Amount,
            Height |-> table[<<chain, address, present[n]>>].Height]]

\* queryResolver.Account as it would be if the errors of its two queries were
\* dropped: the account state is returned for every chain.
AccountAlwaysAnswers(table, chain, address, failed, dels) ==
    [err |-> FALSE, ChainName |-> chain, Address |-> address,
     Balances |-> GetBalances(table, chain, address),
     Delegations |-> dels[chain]]

\* queryResolver.Account: an error when either query fails (failed holds the
\* chains for which one does), else the account state.
Account(table, chain, address, failed, dels) ==
    IF chain \in failed THEN [err |-> TRUE]
    ELSE [err |-> FALSE, ChainName |-> chain, Address |-> address,
          Balances |-> GetBalances(table, chain, address),
          Delegations |-> dels[chain]]

\* A Go map[string]string with no entry.
EmptyMap == [d \in {} |-> ""]

\* The loop over accountState.Balances: an existing total becomes
\* current + "+" + balance.Amount, a new one balance.Amount.
RECURSIVE AddBalances(_, _)
AddBalances(total, bals) ==
    IF bals = <<>> THEN total
    ELSE LET b == Head(bals)
         IN AddBalances(
               IF b.Denom \in DOMAIN total
               THEN [total EXCEPT ![b.Denom] = @ \o "+" \o b.Amount]
               ELSE total @@ (b.Denom :> b.Amount),
               Tail(bals))

\* The loop over accountState.Delegations, all under the denom "stake".
RECURSIVE AddDelegations(_, _)
AddDelegations(total, dels) ==
    IF dels = <<>> THEN total
    ELSE LET d == Head(dels)
         IN AddDelegations(
               IF "stake" \in DOMAIN total
               THEN [total EXCEPT !["stake"] = @ \o "+" \o d.Shares]
               ELSE total @@ ("stake" :> d.Shares),
               Tail(dels))

\* The loop over chains: a chain whose Account call fails is logged and
\* skipped, the others are appended to chainStates and added to the totals.
RECURSIVE Aggregate(_, _, _)
Aggregate(chains, accounts, acc) ==
    IF chains = <<>> THEN acc
    ELSE LET a == accounts[Head(chains)]
         IN Aggregate(Tail(chains), accounts,
               IF a.err THEN acc
               ELSE [Chains |-> Append(acc.Chains, Head(chains)),
                     TotalBalance |-> AddBalances(acc.TotalBalance, a.Balances),
                     TotalDelegated |-> AddDelegations(acc.TotalDelegated, a.Delegations)])

\* The CrossChainAccountState the resolver returns for the chains in the
\* given order (its fields are Address, Chains and Totals; TotalRewards is
\* 0.05 per delegated denom, kept here in hundredths).
CrossChainAccountState(address, chains, accounts) ==
    LET a == Aggregate(chains, accounts,
                       [Chains |-> <<>>, TotalBalance |-> EmptyMap,
                        TotalDelegated |-> EmptyMap])
    IN [Address |-> address,
        Chains |-> a.Chains,
        Totals |-> [TotalBalance |-> a.TotalBalance,
                    TotalDelegated |-> a.TotalDelegated,
                    TotalUnbonding |-> EmptyMap,
                    TotalRewards |-> 5 * Cardinality(DOMAIN a.TotalDelegated)]]

\* The chains a caller may want aggregated.  Neither handler has a parameter
\* for them: both take the address only.
RequestedChains == (SUBSET ChainNames) \ {{}}

\* The chains the loop of the resolver calls r.Account for.
FetchedChains(chains) == {chains[n] : n \in 1..Len(chains)}

\* queryResolver.CrossChainAccount: always returns the state and a nil error.
CrossChainAccount ==
    /\ crossChain = NoRequest
    /\ \E address \in Addresses, failed \in SUBSET ChainNames,
          dels \in [ChainNames -> DelegationLists], requested \in RequestedChains :
          LET accounts == [c \in ChainNames |->
                              Account(balances, c, address, failed, dels)]
          IN crossChain' =
                [by |-> "graphql", failed |-> failed, accounts |-> accounts,
                 err |-> "nil", requested |-> requested,
                 fetched |-> FetchedChains(CrossChainChains),
                 resp |-> CrossChainAccountState(address, CrossChainChains, accounts)]
    /\ UNCHANGED <<cfg, ivars, lvars, batch, rvars>>

\* Server.getCrossChainAccount: a placeholder, status 200 with empty chains
\* and totals whatever the store holds or whether it can be read.
GetCrossChainAccount ==
    /\ crossChain = NoRequest
    /\ \E address \in Addresses, failed \in SUBSET ChainNames,
          requested \in RequestedChains :
          crossChain' =
             [by |-> "rest", failed |-> failed, err |-> "nil",
              requested |-> requested, fetched |-> {},
              resp |-> [Address |-> address, Chains |-> EmptyMap,
                        Totals |-> [TotalBalance |-> EmptyMap,
                                    TotalDelegated |-> EmptyMap,
                                    TotalUnbonding |-> EmptyMap,
                                    TotalRewards |-> EmptyMap]]]
    /\ UNCHANGED <<cfg, ivars, lvars, batch, rvars>>

ApiConfigs ==
    {c \in ValidConfigs : c.MaxConns = 0 /\ Len(c.Chains) = 1
                          /\ c.Chains[1].Enabled /\ c.Chains[1].Name = "cosmoshub"}

AInit ==
    /\ cfg \in ApiConfigs
    /\ IngesterInit
    /\ stateChanges = <<>>
    /\ listener = NewStateListener
    /\ lworkers = [w \in DOMAIN cfg.Chains |-> NoListenerWorker]
    /\ balances \in BalanceTables
    /\ ApiInit

ANext ==
    \/ CrossChainAccount
    \/ GetCrossChainAccount

ApiSpec == AInit /\ [][ANext]_vars

(***************************************************************************)
(* Shutdown: the ingester and the listener of one chain, with the          *)
(* cancellation of the context handed to Ingester.Start and to             *)
(* StateListener.Start (Cancel) and with StateListener.Stop.               *)
(***************************************************************************)
ShutdownConfigs ==
    {c \in ValidConfigs : /\ c.MaxConns = 0
                          /\ Len(c.Chains) = 1
                          /\ c.Chains[1].Enabled
                          /\ c.Chains[1].Name = "cosmoshub"}

\* The changes the node sends: balance changes of the configured chain.
ShutdownChanges(n) ==
    {c \in StateChanges(n) : c.ChainName = "cosmoshub" /\ IsBalanceKey(c.Key)}

SInit ==
    /\ cfg \in ShutdownConfigs
    /\ IngesterInit
    /\ ListenerInit
    /\ ApiInit

SNext ==
    \/ Next
    \/ Cancel
    \/ \E w \in Workers : WorkerStop(w)
    \/ ListenerStart
    \/ \E change \in ShutdownChanges(listener.calls + 1) : OnStateChange(change)
    \/ Route
    \/ RouterStop
    \/ \E i \in Workers : ListenerWorkerProcess(i)
    \/ \E i \in Workers : ListenerWorkerStop(i)
    \/ StopCancel
    \/ StopClose

ShutdownSpec == SInit /\ [][SNext]_vars

\* Scheduling: a goroutine that can take a step takes one, and a select that
\* finds <-ctx.Done() ready again and again takes that case in the end.
ShutdownFairSpec ==
    /\ ShutdownSpec
    /\ WF_vars(Next)
    /\ SF_vars(\E w \in Workers : WorkerStop(w))
    /\ WF_vars(Route)
    /\ SF_vars(RouterStop)
    /\ WF_vars(\E i \in Workers : ListenerWorkerProcess(i))
    /\ SF_vars(\E i \in Workers : ListenerWorkerStop(i))

(***************************************************************************)
(* Modules: the ingester and the listener of one chain, with a module name *)
(* the ingester's switch does not know ("gov") in the configured list and  *)
(* with changes of a store the listener's switch does not know ("wasm").   *)
(***************************************************************************)
\* The names the switch of ingestChainState has a case for.
KnownModules == {"bank", "staking", "distribution", "governance", "mint", "slashing"}

\* The store keys the switch of processStateChange has a case for.
KnownStoreKeys == {"bank", "staking", "distribution", "gov", "mint", "slashing"}

\* The changes the node sends: balance keys under a known and an unknown
\* store.
ModuleChanges(n) ==
    [ChainName : {"cosmoshub"}, StoreKey : {"bank", "wasm"},
     Key : {k \in RawKeys : IsBalanceKey(k)}, Value : TokenAmounts,
     Delete : {FALSE}, Height : {0}, Seq : {n}]

MInit ==
    /\ cfg \in ShutdownConfigs
    /\ IngesterInit
    /\ ListenerInit
    /\ ApiInit

MNext ==
    \/ Next
    \/ ListenerStart
    \/ \E change \in ModuleChanges(listener.calls + 1) : OnStateChange(change)
    \/ Route
    \/ \E i \in Workers : ListenerWorkerProcess(i)

ModulesSpec == MInit /\ [][MNext]_vars

(***************************************************************************)
(* The upserts of a storage transaction (internal/storage/postgres.go),    *)
(* applied to the tables with records drawn from bounded sets.             *)
(***************************************************************************)
\* A batch handed to UpsertBalances holds at most MaxBatch records.
MaxBatch == 2

\* Block heights the records of a batch may carry.
BatchHeights == {0, 1}

BalanceRecords ==
    [ChainName : {"cosmoshub"}, Address : Addresses, Denom : Denoms,
     Amount : BalanceAmounts, Height : BatchHeights]

\* The batches handed to UpsertBalances: the records of one batch carry the
\* height of the block they were read at.
BalanceBatches ==
    {bals \in SeqsUpTo(BalanceRecords, MaxBatch) :
        \A n \in 1..Len(bals) : bals[n].Height = bals[1].Height}

\* The loop of UpsertBalances: one statement per record, in slice order.
RECURSIVE UpsertBalanceLoop(_, _)
UpsertBalanceLoop(table, bals) ==
    IF bals = <<>> THEN table
    ELSE UpsertBalanceLoop(UpsertBalance(table, Head(bals)), Tail(bals))

\* PostgresTx.UpsertBalances: nil for an empty slice; else the statement is
\* executed for each record in order, and the first execution that fails
\* (the failAt-th; 0 when none does) ends the call with an error.
UpsertBalances(table, bals, failAt) ==
    IF Len(bals) = 0 THEN [err |-> "nil", table |-> table]
    ELSE IF failAt = 0 THEN [err |-> "nil", table |-> UpsertBalanceLoop(table, bals)]
    ELSE [err |-> "err",
          table |-> UpsertBalanceLoop(table, SubSeq(bals, 1, failAt - 1))]

\* A transaction around UpsertBalances: BeginTx, the call, then Commit when
\* it returned nil and Rollback when it returned an error.
UpsertBalancesTx ==
    /\ \E bals \in BalanceBatches, failAt \in 0..MaxBatch :
          /\ failAt <= Len(bals)
          /\ LET r == UpsertBalances(balances, bals, failAt)
             IN /\ balances' = IF r.err = "nil" THEN r.table ELSE balances
                /\ batch' = [kind |-> "balances", records |-> bals, err |-> r.err]
    /\ UNCHANGED <<cfg, ivars, listener, stateChanges, lworkers, crossChain, rvars>>

UInit ==
    /\ cfg \in ShutdownConfigs
    /\ IngesterInit
    /\ ListenerInit
    /\ ApiInit

UNext == UpsertBalancesTx

UpsertSpec == UInit /\ [][UNext]_vars

(***************************************************************************)
(* The listener on bank events with arbitrary raw keys.                    *)
(***************************************************************************)
\* Raw keys of bank events: empty, the bare prefix, one part after the
\* prefix, and a well-formed key.
DecodeKeys ==
    {<<>>, BalancesPrefix, BalancesPrefix \o <<"a">>, BalancesPrefix \o <<"a", "/", "u">>}

DecodeChanges(n) ==
    [ChainName : {"cosmoshub"}, StoreKey : {"bank"}, Key : DecodeKeys,
     Value : TokenAmounts, Delete : {FALSE}, Height : {0}, Seq : {n}]

DInit ==
    /\ cfg \in ShutdownConfigs
    /\ IngesterInit
    /\ ListenerInit
    /\ ApiInit

DNext ==
    \/ ListenerStart
    \/ \E change \in DecodeChanges(listener.calls + 1) : OnStateChange(change)
    \/ Route
    \/ \E i \in Workers : ListenerWorkerProcess(i)

DecodeSpec == DInit /\ [][DNext]_vars

(***************************************************************************)
(* An account-state read (queryResolver.Account in unnamed/part_002,       *)
(* Server.getAccountState in unnamed/part_001) next to transactions that   *)
(* commit to the balances and delegations tables.                          *)
(***************************************************************************)
\* Transactions committed while the read is followed.
MaxCommits == 2

\* Shares (decimal strings) a delegation may carry.
DelegationShares == {"500", "700"}

\* ORDER BY validator_address.
ValidatorOrder == <<"val1">>

\* PostgresTx.UpsertDelegation: INSERT ... ON CONFLICT (chain_name,
\* delegator_address, validator_address) DO UPDATE SET shares, height,
\* updated_at = EXCLUDED's.
UpsertDelegation(table, d) ==
    [table EXCEPT ![<<d.ChainName, d.DelegatorAddress, d.ValidatorAddress>>] =
        [Shares |-> d.Shares, Height |-> d.Height]]

\* PostgresStore.GetDelegations: the rows of (chain, delegator), ordered by
\* validator address.
GetDelegations(table, chain, address) ==
    LET present == SelectSeq(ValidatorOrder,
                             LAMBDA v : table[<<chain, address, v>>] # NoDelegation)
    IN [n \in 1..Len(present) |->
           [ChainName |-> chain, DelegatorAddress |-> address,
            ValidatorAddress |-> present[n],
            Shares |-> table[<<chain, address, present[n]>>].Shares,
            Height |-> table[<<chain, address, present[n]>>].Height]]

\* The chain and the address of the read.
ReadChain == "cosmoshub"

ReadAddress == "a"

\* A transaction of the store: BeginTx, UpsertBalance and UpsertDelegation
\* for the account at the height of a block, Commit.  Both tables change in
\* the one commit.
AccountCommitTx ==
    /\ Len(commits) <= MaxCommits
    /\ \E d \in Denoms, amount \in BalanceAmounts, shares \in DelegationShares :
          LET height == Len(commits)
              b == [ChainName |-> ReadChain, Address |-> ReadAddress, Denom |-> d,
                    Amount |-> amount, Height |-> height]
              dl == [ChainName |-> ReadChain, DelegatorAddress |-> ReadAddress,
                     ValidatorAddress |-> "val1", Shares |-> shares, Height |-> height]
          IN /\ balances' = UpsertBalance(balances, b)
             /\ delegations' = UpsertDelegation(delegations, dl)
             /\ commits' = Append(commits, [balances |-> balances',
                                            delegations |-> delegations'])
    /\ UNCHANGED <<cfg, ivars, listener, stateChanges, lworkers, crossChain, batch, reader>>

\* The first query of the read: GetBalances on the pool, or its error.
AccountGetBalances ==
    /\ reader.pc = "idle"
    /\ \/ reader' = [reader EXCEPT !.pc = "failed"]
       \/ reader' = [reader EXCEPT !.pc = "balances",
                                   !.Balances = GetBalances(balances, ReadChain, ReadAddress)]
    /\ UNCHANGED <<cfg, ivars, lvars, crossChain, batch, delegations, commits>>

\* The second query of the read: GetDelegations on the pool, or its error;
\* then the account state is returned.
AccountGetDelegations ==
    /\ reader.pc = "balances"
    /\ \/ reader' = [reader EXCEPT !.pc = "failed"]
       \/ reader' = [reader EXCEPT !.pc = "done",
                                   !.Delegations = GetDelegations(delegations, ReadChain,
                                                                  ReadAddress)]
    /\ UNCHANGED <<cfg, ivars, lvars, crossChain, batch, delegations, commits>>

RInit ==
    /\ cfg \in ApiConfigs
    /\ IngesterInit
    /\ ListenerInit
    /\ ApiInit

RNext ==
    \/ AccountCommitTx
    \/ AccountGetBalances
    \/ AccountGetDelegations

AccountReadSpec == RInit /\ [][RNext]_vars

(***************************************************************************)
(* Ingester.Stop (internal/ingester/ingester.go) next to the chain         *)
(* workers.                                                                *)
(***************************************************************************)
\* Ingester.Stop after i.cancel(): the select returns on done (wg.Wait has
\* returned: every worker goroutine has ended) or on <-ctx.Done() of the
\* context Stop was handed, when that context expires; then every client is
\* closed.  A worker keeps the client it was created with.
IngesterStopClose ==
    /\ started
    /\ cancelled
    /\ \E c \in ChainNames : clients[c] = "open"
    /\ \E expired \in BOOLEAN :
          expired \/ \A w \in Workers : workers[w].pc \in {"none", "stopped"}
    /\ clients' = [c \in ChainNames |-> IF clients[c] = "open" THEN "closed" ELSE clients[c]]
    /\ UNCHANGED <<cfg, avars, lvars, started, cancelled, workers, validators,
                   latest_height, lastCommitted>>

StopInit ==
    /\ cfg \in ShutdownConfigs
    /\ IngesterInit
    /\ ListenerInit
    /\ ApiInit

StopNext ==
    \/ Next
    \/ Cancel
    \/ \E w \in Workers : WorkerStop(w)
    \/ IngesterStopClose

StopSpec == StopInit /\ [][StopNext]_vars

(***************************************************************************)
(* Properties of the polling ingester, checked under Spec.                 *)
(***************************************************************************)
\* The step is worker w returning an error from ingestChainState.
CycleFails(w) == InCycle(workers[w]) /\ workers'[w] = CycleFailed

\* The step is worker w returning nil from ingestChainState.
CycleSucceeds(w) == workers[w].pc = "commit" /\ workers'[w] = CycleDone

\* The step is the commit of worker w's staking transaction.
StakingCommits(w) == workers[w].pc = "staking" /\ workers'[w] = AfterModule(w)

\* The ChainCursor of the data model, "last committed height": the height of
\* the chain's last successful cycle.
Cursor(c) == lastCommitted[c]

\* C1: when an ingestion cycle fails (a module step or the final commit),
\* the chain's stored records are exactly those held when the cycle began,
\* and the chain's cursor column is untouched.
C1_FailedCycleLeavesStore ==
    [][\A w \in Workers :
          CycleFails(w) =>
             /\ ChainRows(validators', ChainOf(w)) = workers[w].start
             /\ latest_height'[ChainOf(w)] = latest_height[ChainOf(w)]]_vars

\* C2: the height stored for a (chain, natural key) pair never decreases from
\* one commit to the next.
C2_StoredHeightNeverDecreases ==
    [][\A k \in ChainNames \X Operators :
          validators'[k].Height >= validators[k].Height]_vars

\* C3: committing a record at a height above the stored one overwrites the
\* row, and committing a record at a height below the stored one leaves the
\* row (payload and height) as it was.
C3_HeightDecidesTheStoredRecord ==
    [][\A w \in Workers :
          StakingCommits(w) =>
             \A n \in 1..Len(workers[w].vals) :
                LET v == workers[w].vals[n]
                    k == <<v.ChainName, v.OperatorAddress>>
                IN /\ v.Height > validators[k].Height =>
                         validators'[k] = [Tokens |-> v.Tokens, Height |-> v.Height]
                   /\ v.Height < validators[k].Height =>
                         validators'[k] = validators[k]]_vars

\* C4: a commit for a chain at a height below the chain's cursor changes no
\* stored record of the chain and leaves the cursor where it was.
C4_StaleCommitIsNoOp ==
    [][\A w \in Workers :
          (/\ InCycle(workers[w])
           /\ workers[w].pc # "height"
           /\ workers[w].height < Cursor(ChainOf(w))
           /\ workers'[w] # workers[w]) =>
             /\ ChainRows(validators', ChainOf(w)) = ChainRows(validators, ChainOf(w))
             /\ Cursor(ChainOf(w))' = Cursor(ChainOf(w))]_vars

\* C5: a chain's cursor never moves backward and the heights of its
\* successive successful commits are non-decreasing.
C5_CommitHeightsNonDecreasing ==
    [][\A c \in ChainNames :
          /\ latest_height'[c] >= latest_height[c]
          /\ lastCommitted'[c] >= lastCommitted[c]]_vars

\* C6: when a cycle of a chain commits successfully at height h, the chain's
\* cursor is h afterwards and the chain queries return height h.
C6_CursorIsCommittedHeight ==
    [][\A w \in Workers :
          CycleSucceeds(w) =>
             /\ latest_height'[ChainOf(w)] = workers[w].height
             /\ ~GetChain(ChainOf(w)).err
             /\ GetChain(ChainOf(w)).LatestHeight = workers[w].height
             /\ ResolverChain(ChainOf(w)).LatestHeight = workers[w].height]_vars

\* C7: for every configuration Validate accepts, at most one ingestion cycle
\* per chain name is in flight.
C7_OneCycleInFlightPerChain ==
    \A c \in ChainNames :
        Cardinality({w \in Workers : ChainOf(w) = c /\ InCycle(workers[w])}) <= 1

\* The worker waits in BeginTx for a connection of the pool.
WaitsForConn(w) == workers[w].pc \in {"begin", "staking"} /\ ~ConnAvailable

\* The worker is inside a call to the source adapter while it holds the outer
\* transaction (no call carries a timeout: the context is cancel-only).
InSourceCallWithTx(w) ==
    /\ workers[w].pc = "module"
    /\ Module(w) \in {"bank", "staking", "governance"}

\* C8: a stall of one chain's source call never keeps another chain's worker
\* from going on with its own cycle: no worker waits for a resource that a
\* worker of another chain holds across a source call.
C8_NoCrossChainBlocking ==
    \A a \in Workers, b \in Workers :
        ChainOf(a) # ChainOf(b) => ~(WaitsForConn(b) /\ InSourceCallWithTx(a))

\* C24: a cycle whose batch is older than the chain's cursor ends without a
\* failure recorded by the worker, and its batch is dropped: the chain's
\* records are those held when the cycle began and the cursor stays.
C24_StaleBatchIsDropped ==
    [][\A w \in Workers :
          (/\ workers[w].pc = "commit"
           /\ workers[w].height < Cursor(ChainOf(w))
           /\ workers'[w].pc = "idle") =>
             /\ workers'[w].err = "nil" =>
                   /\ ChainRows(validators', ChainOf(w)) = workers[w].start
                   /\ Cursor(ChainOf(w))' = Cursor(ChainOf(w))]_vars

\* The configuration enables the chain named c.
EnabledChain(c) == \E i \in Workers : cfg.Chains[i].Enabled /\ ChainOf(i) = c

\* The worker goroutines Ingester.Start has created for the chain named c.
WorkersOf(c) == {w \in Workers : ChainOf(w) = c /\ workers[w].pc # "none"}

\* C30: once Start has returned, every enabled chain has exactly one worker
\* and a chain that is not enabled has none, so that it is never polled.
C30_OneWorkerPerEnabledChain ==
    started =>
        \A c \in ChainNames :
            Cardinality(WorkersOf(c)) = IF EnabledChain(c) THEN 1 ELSE 0

\* C32: once Start has returned, a chain whose client creation or ping
\* failed has no worker, and every enabled entry of a chain whose check
\* succeeded has a worker that runs, whatever happened to the other chains.
C32_StartFailureStaysWithItsChain ==
    started =>
        \A c \in ChainNames :
            /\ clients[c] = "nil" => WorkersOf(c) = {}
            /\ clients[c] # "nil" =>
                  \A w \in Workers :
                      (cfg.Chains[w].Enabled /\ ChainOf(w) = c) =>
                          workers[w].pc \notin {"none", "stopped"}

\* C32 witness: Start has returned, an enabled chain whose check failed has
\* no worker, and the worker of another chain has committed a cycle.
C32_Witness ==
    /\ started
    /\ \E a \in Workers, b \in Workers :
          /\ cfg.Chains[a].Enabled
          /\ clients[ChainOf(a)] = "nil"
          /\ workers[a].pc = "none"
          /\ ChainOf(b) # ChainOf(a)
          /\ workers[b].pc = "idle"
          /\ lastCommitted[ChainOf(b)] >= 0

\* Every connection of the pool is held by the outer transaction of a
\* worker that waits in the BeginTx of its staking step for another one.
PoolDeadlock ==
    /\ ~ConnAvailable
    /\ \A w \in Workers : HoldsOuterTx(workers[w]) => workers[w].pc = "staking"

\* C38: for a pool of at least one connection, the workers never wait on
\* one another forever: the pool is never held entirely by workers that
\* wait for a further connection, a state no cycle gets out of.
C38_CyclesNeverDeadlockOnPool == cfg.MaxConns >= 1 => ~PoolDeadlock

(***************************************************************************)
(* Properties of the state listener, checked under ListenerSpec.           *)
(***************************************************************************)
\* The step is a call of OnStateChange.
OnStateChangeCalled == listener'.calls = listener.calls + 1

\* C9: every staging queue holds at most its capacity, and an enqueue on a
\* full queue reports the event as not accepted (returns false) and leaves
\* the queue as it was.
C9_FullQueueRejects ==
    [][/\ Len(stateChanges') <= StateChangesCap
       /\ \A i \in Workers : Len(lworkers'[i].changes) <= WorkerChangesCap
       /\ (OnStateChangeCalled /\ ~listener.closed /\ Len(stateChanges) = StateChangesCap) =>
             /\ stateChanges' = stateChanges
             /\ OnStateChangeResult(listener'.last) = "false"]_vars

\* C10: OnStateChange never waits: whatever the state of the queue and of the
\* consumers (running, stalled or stopped), a call the producer makes can take
\* its step, and while the inbound channel is open that step returns.
C10_ProducerNeverBlocks ==
    (~listener.panicked /\ listener.calls < MaxEvents) =>
        \A change \in StateChanges(listener.calls + 1) :
            /\ ENABLED OnStateChange(change)
            /\ ~listener.closed =>
                  ENABLED (OnStateChange(change) /\ ~listener'.panicked)

\* C10 witness: the inbound queue is full, a call has just dropped its
\* change, and the routing goroutine is not running.
C10_Witness ==
    /\ Len(stateChanges) = StateChangesCap
    /\ listener.last = "dropped"
    /\ listener.router = "stopped"
    /\ listener.calls < MaxEvents

\* The changes of chain c that wait in the inbound channel.
StagedInbound(c) == SelectSeq(stateChanges, LAMBDA ch : ch.ChainName = c)

\* Chain c has a worker and the worker's channel has room.
WorkerHasRoom(c) ==
    /\ listener.workerOf[c] # 0
    /\ lworkers[listener.workerOf[c]].pc = "running"
    /\ Len(lworkers[listener.workerOf[c]].changes) < WorkerChangesCap

\* C11: the events of one chain are bounded apart from those of every other
\* chain: while chain B's worker channel has room and no event of B is
\* staged, an event for B is accepted, however many events of other chains
\* are staged.
C11_ChainsBoundedIndependently ==
    (listener.started /\ ~listener.closed /\ ~listener.panicked
        /\ listener.calls < MaxEvents) =>
        \A change \in StateChanges(listener.calls + 1) :
            (WorkerHasRoom(change.ChainName) /\ StagedInbound(change.ChainName) = <<>>) =>
                ENABLED (OnStateChange(change) /\ listener'.last = "queued")

\* C12: within a chain, accepted events are processed in the order in which
\* they were enqueued: the call numbers of the changes a worker has
\* processed are strictly increasing.
C12_FifoWithinChain ==
    \A i \in Workers :
        \A m \in 1..Len(lworkers[i].done), n \in 1..Len(lworkers[i].done) :
            m < n => lworkers[i].done[m] < lworkers[i].done[n]

\* C12 witness: a worker has processed two changes of its chain that were
\* accepted, with another call of OnStateChange between the two.
C12_Witness ==
    \E i \in Workers :
        /\ Len(lworkers[i].done) >= 2
        /\ lworkers[i].done[2] > lworkers[i].done[1] + 1

\* The step is worker i taking a change from its channel and handing it to
\* processStateChange.
Processes(i) == Len(lworkers'[i].done) = Len(lworkers[i].done) + 1

\* The balance a change with such a key carries.
BalanceOf(change) ==
    LET ad == CHOOSE ad \in Addresses \X Denoms :
                 change.Key = BalancesPrefix \o <<ad[1], "/", ad[2]>>
    IN [ChainName |-> change.ChainName, Address |-> ad[1], Denom |-> ad[2],
        Amount |-> IF change.Delete THEN "0" ELSE change.Value,
        Height |-> change.Height]

\* C17: after a record of a chain's event stream has failed to decode, the
\* worker is still running and a later valid record of the stream is
\* committed to the store when the worker processes it.
C17_DecodeErrorSkipsOneRecord ==
    [][\A i \in Workers :
          (/\ Processes(i)
           /\ lworkers[i].err = "err"
           /\ Head(lworkers[i].changes).StoreKey = "bank"
           /\ IsBalanceKey(Head(lworkers[i].changes).Key)) =>
             /\ lworkers'[i].pc = "running"
             /\ balances' = UpsertBalance(balances, BalanceOf(Head(lworkers[i].changes)))]_vars

\* C34: when the worker processes a bank change whose key has the form
\* balances/{address}/{denom}, it returns no error and the balance row of
\* (chain, address, denom) holds the change's amount ("0" for a delete) and
\* height afterwards.
C34_BalanceChangeIsUpserted ==
    [][\A i \in Workers :
          (/\ Processes(i)
           /\ Head(lworkers[i].changes).StoreKey = "bank"
           /\ IsBalanceKey(Head(lworkers[i].changes).Key)) =>
             LET b == BalanceOf(Head(lworkers[i].changes))
             IN /\ lworkers'[i].err = "nil"
                /\ balances'[<<b.ChainName, b.Address, b.Denom>>] =
                      [Amount |-> b.Amount, Height |-> b.Height]]_vars

\* The step is the routing goroutine taking the oldest change from the
\* inbound channel.
RoutesHead == stateChanges # <<>> /\ stateChanges' = Tail(stateChanges)

\* C35: an accepted change of a chain that has a worker is not discarded
\* between the inbound channel and the worker: when the routing goroutine
\* takes it from the inbound channel, it is put on the worker's channel.
C35_AcceptedEventReachesWorker ==
    [][(RoutesHead /\ listener.workerOf[Head(stateChanges).ChainName] # 0) =>
          LET i == listener.workerOf[Head(stateChanges).ChainName]
          IN lworkers'[i].changes = Append(lworkers[i].changes, Head(stateChanges))]_vars

\* C36: in no interleaving of OnStateChange and Stop calls is the inbound
\* channel sent on or closed after it has been closed (either one panics).
C36_NoUseOfClosedChannel == ~listener.panicked

\* The listener never reaches the UpsertBalance call of processBalanceChange,
\* nor the publish and analytics calls that follow it: every balance change
\* returns at the length check on parts, and the balances table stays empty.
ListenerWritesNothing == balances = EmptyBalances

(***************************************************************************)
(* Properties of shutdown, checked under ShutdownSpec.                     *)
(***************************************************************************)
\* C18: a worker that has observed cancellation (its loop has returned)
\* starts no further ingestion cycle and processes no further event.
C18_NoWorkAfterCancellationObserved ==
    [][/\ \A w \in Workers :
            workers[w].pc = "stopped" => workers'[w] = workers[w]
       /\ \A i \in Workers :
            lworkers[i].pc = "stopped" =>
               /\ lworkers'[i].pc = "stopped"
               /\ lworkers'[i].done = lworkers[i].done]_vars

\* C18 witness: the chain worker has stopped after a cycle it ran, and the
\* listener worker has stopped after an event it processed, with a further
\* event waiting in its channel.
C18_Witness ==
    \E w \in Workers :
        /\ workers[w].pc = "stopped"
        /\ lastCommitted[ChainOf(w)] >= 0
        /\ lworkers[w].pc = "stopped"
        /\ lworkers[w].done # <<>>
        /\ lworkers[w].changes # <<>>

\* Every chain worker of the ingester and of the listener has returned.
AllWorkersStopped ==
    \A w \in Workers :
        /\ workers[w].pc \in {"none", "stopped"}
        /\ lworkers[w].pc \in {"none", "stopped"}

\* C19: once the context handed to Ingester.Start and to StateListener.Start
\* is cancelled, every chain worker eventually observes it and stops.
C19_ShutdownReachesEveryWorker == cancelled ~> AllWorkersStopped

\* C26: after a failed cycle the worker loop keeps running: the worker is
\* back in its select, where the next tick starts a new cycle, and it has
\* stopped only if cancellation was signalled and observed.
C26_FailedCycleKeepsLoopRunning ==
    \A w \in Workers :
        workers[w].err = "err" =>
            \/ workers[w].pc = "idle" /\ ENABLED Tick(w)
            \/ workers[w].pc = "stopped" /\ cancelled

\* C26 witness: a cycle has failed, nothing is cancelled, and the worker
\* has committed a cycle before.
C26_Witness ==
    \E w \in Workers :
        /\ workers[w] = CycleFailed
        /\ ~cancelled
        /\ lastCommitted[ChainOf(w)] >= 0

\* C37: no worker is in an ingestion cycle on a source client that
\* Ingester.Stop has closed.
C37_NoCycleOnClosedClient ==
    \A w \in Workers :
        InCycle(workers[w]) => clients[ChainOf(w)] # "closed"

(***************************************************************************)
(* Properties of module dispatch, checked under ModulesSpec.               *)
(***************************************************************************)
\* C21: an unknown module name is a no-op.  A configured module the
\* ingester does not know returns no error, writes nothing and the cycle
\* goes on with the next module; a change of a store the listener does not
\* know returns no error, writes nothing and the worker keeps running.
C21_UnknownModuleIsNoOp ==
    [][/\ \A w \in Workers :
            (/\ workers[w].pc = "module"
             /\ Module(w) \notin KnownModules
             /\ workers'[w] # workers[w]) =>
               /\ workers'[w] = AfterModule(w)
               /\ workers'[w].err = "nil"
               /\ validators' = validators
               /\ balances' = balances
       /\ \A i \in Workers :
            (/\ Processes(i)
             /\ Head(lworkers[i].changes).StoreKey \notin KnownStoreKeys) =>
               /\ lworkers'[i].err = "nil"
               /\ lworkers'[i].pc = "running"
               /\ validators' = validators
               /\ balances' = balances]_vars

\* C21 witness: the cycle has passed the unknown module "gov" and is at the
\* known module that follows it, and the listener worker has processed two
\* changes, the last one of the unknown store.
C21_Witness ==
    \E w \in Workers :
        /\ workers[w].pc = "module"
        /\ workers[w].mi > 1
        /\ cfg.Chains[w].Modules[workers[w].mi - 1] \notin KnownModules
        /\ Module(w) \in KnownModules
        /\ Len(lworkers[w].done) >= 2
        /\ lworkers[w].err = "nil"

C23_EqualHeightIsNoOp ==
    [][\A k \in ChainNames \X Addresses \X Denoms :
          (balances[k] # NoBalance /\ balances'[k].Height = balances[k].Height) =>
             balances'[k] = balances[k]]_vars

\* The natural key of a balance record.
BalanceKey(b) == <<b.ChainName, b.Address, b.Denom>>

\* C25: when a batch of balance records is applied and committed, each
\* natural key of the batch holds the payload and the height of the last
\* record of the batch that has that key: records are applied in batch order
\* and the later one wins.
C25_LaterRecordWins ==
    (batch.kind = "balances" /\ batch.err = "nil") =>
        \A n \in 1..Len(batch.records) :
            (\A m \in (n + 1)..Len(batch.records) :
                 BalanceKey(batch.records[m]) # BalanceKey(batch.records[n])) =>
               balances[BalanceKey(batch.records[n])] =
                   [Amount |-> batch.records[n].Amount, Height |-> batch.records[n].Height]

\* A committed batch of two records with one natural key and two amounts.
C25_Witness ==
    /\ batch.kind = "balances"
    /\ batch.err = "nil"
    /\ Len(batch.records) = 2
    /\ BalanceKey(batch.records[1]) = BalanceKey(batch.records[2])
    /\ batch.records[1].Amount # batch.records[2].Amount
    /\ balances[BalanceKey(batch.records[2])].Amount = batch.records[2].Amount

(***************************************************************************)
(* Properties of cross-chain aggregation, checked under ApiSpec.           *)
(***************************************************************************)
\* The chains a response reports as failed.  CrossChainAccountState has the
\* fields Address, Chains and Totals; a failure map would be a further field.
ReportedFailures(resp) ==
    IF "Failures" \in DOMAIN resp THEN DOMAIN resp.Failures ELSE {}

\* The chains whose account state a response of the resolver includes.
AnsweredChains(resp) == {resp.Chains[n] : n \in 1..Len(resp.Chains)}

\* C13: when at least one requested chain can be read, the aggregation call
\* succeeds, its failure map lists exactly the chains whose fetch failed, and
\* no failed chain is among the chains it answers for.
C13_FailureMapListsFailedChains ==
    (crossChain.by = "graphql" /\ crossChain.failed # ChainNames) =>
        /\ crossChain.err = "nil"
        /\ ReportedFailures(crossChain.resp) = crossChain.failed
        /\ AnsweredChains(crossChain.resp) \cap crossChain.failed = {}

\* C14: an aggregation request for which no requested chain can be read
\* returns an error.
C14_NoReadableChainFails ==
    (crossChain.by # "none" /\ crossChain.failed = ChainNames) =>
        crossChain.err # "nil"

\* The integer a decimal amount string denotes.
DecimalValues == {1000000, 2500000}

Decimal(s) == CHOOSE n \in DecimalValues : ToString(n) = s

\* The exact sum of the amounts of denom d over the balances of a list.
RECURSIVE SumOfDenom(_, _)
SumOfDenom(bals, d) ==
    IF bals = <<>> THEN 0
    ELSE (IF Head(bals).Denom = d THEN Decimal(Head(bals).Amount) ELSE 0)
         + SumOfDenom(Tail(bals), d)

\* The exact sum of denom d over the chains that were fetched.
RECURSIVE ExactTotal(_, _, _)
ExactTotal(chains, accounts, d) ==
    IF chains = <<>> THEN 0
    ELSE (IF accounts[Head(chains)].err THEN 0
          ELSE SumOfDenom(accounts[Head(chains)].Balances, d))
         + ExactTotal(Tail(chains), accounts, d)

\* C15: every per-denomination total of the response is the decimal string
\* of the exact integer sum of that denomination's amounts over the chains
\* fetched.
C15_TotalsAreExactSums ==
    crossChain.by = "graphql" =>
        \A d \in DOMAIN crossChain.resp.Totals.TotalBalance :
            crossChain.resp.Totals.TotalBalance[d] =
                ToString(ExactTotal(CrossChainChains, crossChain.accounts, d))

\* C16: the per-denomination totals do not depend on the order in which the
\* chains are iterated.
C16_TotalsOrderIndependent ==
    crossChain.by = "graphql" =>
        \A a \in ChainNames, b \in ChainNames :
            a # b =>
               CrossChainAccountState(crossChain.resp.Address, <<a, b>>,
                                      crossChain.accounts).Totals.TotalBalance
               = CrossChainAccountState(crossChain.resp.Address, <<b, a>>,
                                        crossChain.accounts).Totals.TotalBalance

\* The balances table with the rows of the given chains removed.
WithoutChains(table, chains) ==
    [k \in DOMAIN table |-> IF k[1] \in chains THEN NoBalance ELSE table[k]]

\* The account states of a request as they would be if the chains whose
\* fetch failed held nothing and answered.
AccountsWithoutFailed ==
    [c \in ChainNames |->
        Account(WithoutChains(balances, crossChain.failed), c,
                crossChain.resp.Address, {},
                [x \in ChainNames |->
                    IF x \in crossChain.failed THEN <<>>
                    ELSE crossChain.accounts[x].Delegations])]

\* C27: the per-chain states of the aggregation response are those of
\* exactly the chains whose fetch succeeded, one each, and no amount of a
\* chain whose fetch failed contributes to a total: the totals are what they
\* would be if the failed chains held nothing.
C27_FailedChainsContributeNothing ==
    crossChain.by = "graphql" =>
        /\ AnsweredChains(crossChain.resp) = ChainNames \ crossChain.failed
        /\ Len(crossChain.resp.Chains) = Cardinality(ChainNames \ crossChain.failed)
        /\ crossChain.resp.Totals =
               CrossChainAccountState(crossChain.resp.Address, CrossChainChains,
                                      AccountsWithoutFailed).Totals

\* C27 witness: the fetch of osmosis failed while osmosis and cosmoshub both
\* hold a balance of one denom for the address, and cosmoshub was answered.
C27_Witness ==
    /\ crossChain.by = "graphql"
    /\ crossChain.failed = {"osmosis"}
    /\ crossChain.resp.Chains = <<"cosmoshub">>
    /\ \E d \in Denoms :
          /\ balances[<<"osmosis", crossChain.resp.Address, d>>] # NoBalance
          /\ balances[<<"cosmoshub", crossChain.resp.Address, d>>] # NoBalance
          /\ crossChain.resp.Totals.TotalBalance[d] =
                 balances[<<"cosmoshub", crossChain.resp.Address, d>>].Amount

\* C28: the chains an aggregation consults are exactly the chains of the
\* request: every requested chain is fetched, and no other chain is fetched
\* or appears in the result.
C28_ConsultsExactlyRequestedChains ==
    crossChain.by # "none" =>
        /\ crossChain.fetched = crossChain.requested
        /\ crossChain.by = "graphql" =>
               AnsweredChains(crossChain.resp) \subseteq crossChain.requested
        /\ crossChain.by = "rest" =>
               DOMAIN crossChain.resp.Chains \subseteq crossChain.requested

(***************************************************************************)
(* Properties of the bank key decoder, checked under DecodeSpec.           *)
(***************************************************************************)
\* C29: whatever raw bank key an event carries (empty, the bare prefix, one
\* part after the prefix, or well-formed), processing it either skips the
\* event (nil) or returns the malformed-key error, never panics on an index
\* out of bounds, writes no balance for a malformed key, and leaves the
\* worker running for the next event.
C29_MalformedKeysAreRecoverable ==
    [][\A i \in Workers :
          Processes(i) =>
             LET key == Head(lworkers[i].changes).Key
             IN /\ lworkers'[i].err \in {"nil", "err"}
                /\ lworkers'[i].pc = "running"
                /\ lworkers'[i].changes = Tail(lworkers[i].changes)
                /\ Len(key) <= Len(BalancesPrefix) => lworkers'[i].err = "nil"
                /\ ~IsBalanceKey(key) => balances' = balances]_vars

\* C29 witness: the worker has processed two events, the last one with an
\* empty key or the bare prefix (it was skipped), the one before with a key
\* that reached the decoder (it returned the error), and a further event
\* waits in its channel.
C29_Witness ==
    \E i \in Workers :
        /\ Len(lworkers[i].done) = 2
        /\ lworkers[i].err = "nil"
        /\ lworkers[i].pc = "running"
        /\ lworkers[i].changes # <<>>
        /\ Len(Head(lworkers[i].changes).Key) < Len(BalancesPrefix)

(***************************************************************************)
(* Properties of the account-state read, checked under AccountReadSpec.    *)
(***************************************************************************)
\* C33: the balances and the delegations an account-state read returns both
\* belong to one committed state of the store.
C33_ReadIsOneCommittedState ==
    reader.pc = "done" =>
        \E n \in 1..Len(commits) :
            /\ reader.Balances = GetBalances(commits[n].balances, ReadChain, ReadAddress)
            /\ reader.Delegations =
                   GetDelegations(commits[n].delegations, ReadChain, ReadAddress)

====
